---- MODULE Spec2Model ----
(***************************************************************************)
(* Model of src/main.py (sg-taxi-tracker): fetch planning areas and taxi   *)
(* positions, map every taxi to a planning area, count taxis per area,     *)
(* keep the top_k areas, look up a description per area on a thread pool   *)
(* of two workers, and print the table.                                    *)
(*                                                                         *)
(* Python lists are 0-based; the sequences here are 1-based, so index i of *)
(* the model is index i-1 of the code.  Rank idx is 1-based in both.       *)
(***************************************************************************)
EXTENDS Integers, Sequences, FiniteSets, TLC

\* ---------------------------------------------------------------- bounds
MaxAreas == 2       \* planning areas returned by the area fetch
MaxPoints == 2      \* taxi positions returned by the taxi fetch
NumCoords == 2      \* distinct coordinates a taxi can be at
MaxTopK == 2        \* largest --top-k tried
MaxEntries == 3     \* ranked entries handed to the enrichment stage (EnrichSpec)

\* --------------------------------------------------------------- universe
Names == <<"ANG MO KIO", "BEDOK", "CLEMENTI", "DOWNTOWN CORE", "GEYLANG">>
None == "None"
Coords == { [lat |-> i, long |-> 100 + NumCoords - i] : i \in 1..NumCoords }

VARIABLES
    pc,             \* position of the main thread in main()
    top_k,          \* the --top-k option
    error,          \* the exception being propagated ("none" when there is none)
    exit_code,      \* "running", 0 or 1
    areas,          \* planning-area frame: rows [pln_area_n, geojson]
    df,             \* taxi frame: rows [lat, long]
    planning_area,  \* the column df["planning_area"] (<<>> before it is set)
    vc,             \* df["planning_area"].value_counts()
    top_ten,        \* vc.head(top_k)
    area_info,      \* tuples (idx, area, count, lat, long, gmap_link)
    descriptions,   \* the list descriptions
    futures,        \* futures in submission order: args, state, response, result
    queue,          \* executor work queue (indices of futures)
    lookups,        \* number of calls of get_area_description so far
    yielded,        \* futures as_completed has already yielded
    completed,      \* progress bar: number of advance() calls
    rows,           \* table rows added
    table_printed   \* console.print(table) happened

vars == <<pc, top_k, error, exit_code, areas, df, planning_area, vc, top_ten,
          area_info, descriptions, futures, queue, lookups, yielded, completed,
          rows, table_printed>>

inputVars == <<top_k, areas, df>>
aggVars == <<planning_area, vc, top_ten, area_info>>
enrichVars == <<descriptions, futures, queue, lookups, yielded, completed>>
outVars == <<rows, table_printed>>

\* ---------------------------------------------------------------- helpers
SeqsUpTo(S, n) == UNION { [1..k -> S] : k \in 0..n }

Min(a, b) == IF a <= b THEN a ELSE b

Max(a, b) == IF a >= b THEN a ELSE b

RECURSIVE GCD(_, _)
GCD(a, b) == IF b = 0 THEN a ELSE GCD(b, a % b)

RECURSIVE SumSeq(_)
SumSeq(s) == IF s = <<>> THEN 0 ELSE Head(s) + SumSeq(Tail(s))

\* A float mean, kept exact: the reduced fraction <<numerator, denominator>>.
Mean(s) == LET g == GCD(SumSeq(s), Len(s)) IN <<SumSeq(s) \div g, Len(s) \div g>>

\* ------------------------------------------------- fetch_planning_areas
\* extract_shape: a geojson string that fails to parse becomes None.
NoneGeom == [is_none |-> TRUE, cells |-> {}]

Geoms == {NoneGeom} \cup { [is_none |-> FALSE, cells |-> c] : c \in SUBSET Coords }

AreaFrames ==
    UNION { { [i \in 1..k |-> [pln_area_n |-> Names[i], geojson |-> g[i]]] :
                g \in [1..k -> Geoms] } : k \in 0..MaxAreas }

TaxiFrames == SeqsUpTo(Coords, MaxPoints)

\* ---------------------------------------------------- get_planning_area
\* bool(geometry): None is falsy, and so is an empty shapely geometry.
Truthy(g) == ~g.is_none /\ g.cells # {}

Contains(g, point) == point \in g.cells

RECURSIVE ScanAreas(_, _, _)
ScanAreas(point, frame, i) ==
    IF i > Len(frame) THEN None
    ELSE IF Truthy(frame[i].geojson) /\ Contains(frame[i].geojson, point)
         THEN frame[i].pln_area_n
         ELSE ScanAreas(point, frame, i + 1)

RECURSIVE ScanAreasLast(_, _, _)
ScanAreasLast(point, frame, i) ==
    IF i < 1 THEN None
    ELSE IF Truthy(frame[i].geojson) /\ Contains(frame[i].geojson, point)
         THEN frame[i].pln_area_n
         ELSE ScanAreasLast(point, frame, i - 1)

get_planning_area_last(row, frame) == ScanAreasLast(row, frame, Len(frame))

get_planning_area(row, frame) == ScanAreas(row, frame, 1)

\* ------------------------------------------------------- value_counts
\* Distinct non-null values of a column, in order of first occurrence.
RECURSIVE Keys(_, _)
Keys(col, seen) ==
    IF col = <<>> THEN <<>>
    ELSE IF Head(col) = None \/ Head(col) \in seen THEN Keys(Tail(col), seen)
         ELSE <<Head(col)>> \o Keys(Tail(col), seen \cup {Head(col)})

KeysWithNull(col) ==
    LET RECURSIVE Go(_, _)
        Go(c, seen) ==
            IF c = <<>> THEN <<>>
            ELSE IF Head(c) \in seen THEN Go(Tail(c), seen)
                 ELSE <<Head(c)>> \o Go(Tail(c), seen \cup {Head(c)})
    IN Go(col, {})

CountOf(col, name) == Cardinality({ i \in 1..Len(col) : col[i] = name })

Orderings(s) ==
    { [i \in 1..Len(s) |-> s[p[i]]] :
        p \in { q \in [1..Len(s) -> 1..Len(s)] : \A a, b \in 1..Len(s) : q[a] = q[b] => a = b } }

\* value_counts(sort=True, dropna=True): one row per distinct non-null value,
\* counts descending.  The sort is Series.sort_values' default quicksort, which
\* promises nothing about rows of equal count: any order of them can come out.
CountsOver(keys, col) ==
    { [i \in 1..Len(o) |-> [area |-> o[i], count |-> CountOf(col, o[i])]] :
        o \in { q \in Orderings(keys) :
                  \A a, b \in 1..Len(q) : a < b => CountOf(col, q[a]) >= CountOf(col, q[b]) } }

value_counts_keepna(col) == CountsOver(KeysWithNull(col), col)

value_counts(col) == CountsOver(Keys(col, {}), col)

\* Series.head(n): the first n rows; for negative n, all but the last -n rows.
head_off_by_one(s, n) ==
    IF n >= 0 THEN SubSeq(s, 1, Min(n + 1, Len(s))) ELSE SubSeq(s, 1, Max(Len(s) + n, 0))

head(s, n) ==
    IF n >= 0 THEN SubSeq(s, 1, Min(n, Len(s))) ELSE SubSeq(s, 1, Max(Len(s) + n, 0))

\* ------------------------------------------------------------ area_info
RECURSIVE Pick(_, _, _)
Pick(frame, col, area) ==
    IF frame = <<>> THEN <<>>
    ELSE IF Head(col) = area THEN <<Head(frame)>> \o Pick(Tail(frame), Tail(col), area)
         ELSE Pick(Tail(frame), Tail(col), area)

Lats(frame) == [i \in 1..Len(frame) |-> frame[i].lat]

Longs(frame) == [i \in 1..Len(frame) |-> frame[i].long]

gmap_link(lat, long) == <<"https://www.google.com/maps/search/?api=1&query=", lat, long>>

\* lines 133-138: one tuple per row of top_ten, idx counted from 1.
BuildAreaInfo(frame, col, top) ==
    [i \in 1..Len(top) |->
        LET members == Pick(frame, col, top[i].area)
            lat == Mean(Lats(members))
            long == Mean(Longs(members))
        IN [idx |-> i, area |-> top[i].area, count |-> top[i].count,
            lat |-> lat, long |-> long, gmap_link |-> gmap_link(lat, long)]]

\* ------------------------------------------------- get_area_description
\* What the reverse-geocoding request does: a 200 answer with a display_name,
\* a 200 answer without one, another status, or an exception (timeout after
\* 20 s, transport error, a body that is not JSON).
Responses == {"ok", "no_display_name", "bad_status", "exception"}

Failures == {"bad_status", "exception"}

EmptyStr == <<"">>

Unknown == <<"Unknown">>

DisplayName(lat, long) == <<"display_name", lat, long>>

get_area_description_raises(lat, long, response) ==
    IF response = "ok" THEN [raised |-> FALSE, value |-> DisplayName(lat, long)]
    ELSE IF response = "exception" THEN [raised |-> TRUE, value |-> <<"timeout">>]
    ELSE [raised |-> FALSE, value |-> Unknown]

get_area_description(lat, long, response) ==
    IF response = "ok" THEN [raised |-> FALSE, value |-> DisplayName(lat, long)]
    ELSE [raised |-> FALSE, value |-> Unknown]

\* ------------------------------------------------------------------ Init
Init ==
    /\ pc = "get_config"
    /\ top_k \in -1..MaxTopK
    /\ error = "none"
    /\ exit_code = "running"
    /\ areas = <<>>
    /\ df = <<>>
    /\ planning_area = <<>>
    /\ vc = <<>>
    /\ top_ten = <<>>
    /\ area_info = <<>>
    /\ descriptions = <<>>
    /\ futures = <<>>
    /\ queue = <<>>
    /\ lookups = 0
    /\ yielded = {}
    /\ completed = 0
    /\ rows = <<>>
    /\ table_printed = FALSE

\* ------------------------------------------------------- fetch and map
GetConfig ==
    /\ pc = "get_config"
    /\ pc' = "fetch_areas"
    /\ UNCHANGED <<error, exit_code, inputVars, aggVars, enrichVars, outVars>>

\* A missing token: raise typer.Exit(code=1).
GetConfigFail ==
    /\ pc = "get_config"
    /\ pc' = "except"
    /\ error' = "config"
    /\ UNCHANGED <<exit_code, inputVars, aggVars, enrichVars, outVars>>

FetchPlanningAreas ==
    /\ pc = "fetch_areas"
    /\ \E frame \in AreaFrames : areas' = frame
    /\ pc' = "fetch_taxis"
    /\ UNCHANGED <<error, exit_code, top_k, df, aggVars, enrichVars, outVars>>

FetchPlanningAreasContinue ==
    /\ pc = "fetch_areas"
    /\ areas' = <<>>
    /\ error' = "areas"
    /\ pc' = "fetch_taxis"
    /\ UNCHANGED <<exit_code, top_k, df, aggVars, enrichVars, outVars>>

\* Any exception of the request or of the parsing: raise typer.Exit(code=1).
FetchPlanningAreasFail ==
    /\ pc = "fetch_areas"
    /\ error' = "areas"
    /\ pc' = "except"
    /\ UNCHANGED <<exit_code, inputVars, aggVars, enrichVars, outVars>>

FetchTaxiAvailability ==
    /\ pc = "fetch_taxis"
    /\ \E frame \in TaxiFrames : df' = frame
    /\ pc' = "map"
    /\ UNCHANGED <<error, exit_code, top_k, areas, aggVars, enrichVars, outVars>>

FetchTaxiAvailabilityFail ==
    /\ pc = "fetch_taxis"
    /\ error' = "taxis"
    /\ pc' = "except"
    /\ UNCHANGED <<exit_code, inputVars, aggVars, enrichVars, outVars>>

\* line 122: df["planning_area"] = df.apply(get_planning_area, axis=1)
MapTaxis ==
    /\ pc = "map"
    /\ planning_area' = [i \in 1..Len(df) |-> get_planning_area(df[i], areas)]
    /\ pc' = "count"
    /\ UNCHANGED <<error, exit_code, inputVars, vc, top_ten, area_info, enrichVars, outVars>>

\* On a frame without rows, apply(axis=1) hands back a frame, not a column, and
\* pandas versions differ on the assignment: it is refused with a ValueError or
\* it leaves an empty column.
MapTaxisRaise ==
    /\ pc = "map"
    /\ df = <<>>
    /\ error' = "mapping"
    /\ pc' = "except"
    /\ UNCHANGED <<exit_code, inputVars, aggVars, enrichVars, outVars>>

\* line 124: top_ten = df["planning_area"].value_counts().head(top_k)
CountAreas ==
    /\ pc = "count"
    /\ \E counts \in value_counts(planning_area) :
          /\ vc' = counts
          /\ top_ten' = head(counts, top_k)
    /\ pc' = "prepare"
    /\ UNCHANGED <<error, exit_code, inputVars, planning_area, area_info, enrichVars, outVars>>

PrepareAreaInfo ==
    /\ pc = "prepare"
    /\ area_info' = BuildAreaInfo(df, planning_area, top_ten)
    /\ pc' = "descriptions"
    /\ UNCHANGED <<error, exit_code, inputVars, planning_area, vc, top_ten, enrichVars, outVars>>

\* lines 174-176: except Exception catches typer.Exit too (click's Exit is a
\* RuntimeError) and the run ends with exit status 1.
HandleException ==
    /\ pc = "except"
    /\ exit_code' = 1
    /\ pc' = "done"
    /\ UNCHANGED <<error, inputVars, aggVars, enrichVars, outVars>>

\* ----------------------------------------------------------- enrichment
\* line 143: descriptions = [""] * len(area_info)
InitDescriptions ==
    /\ pc = "descriptions"
    /\ descriptions' = [i \in 1..Len(area_info) |-> EmptyStr]
    /\ pc' = IF Len(area_info) = 0 THEN "as_completed" ELSE "submit"
    /\ UNCHANGED <<error, exit_code, inputVars, aggVars, futures, queue, lookups,
                   yielded, completed, outVars>>

\* lines 154-157: executor.submit(get_area_description, lat, long) for the next
\* entry; the work item joins the executor's queue.
Submit ==
    /\ pc = "submit"
    /\ LET i == Len(futures) + 1 IN
          /\ futures' = Append(futures, [lat |-> area_info[i].lat,
                                         long |-> area_info[i].long,
                                         state |-> "PENDING",
                                         response |-> "none",
                                         raised |-> FALSE,
                                         value |-> EmptyStr])
          /\ queue' = Append(queue, i)
          /\ pc' = IF i = Len(area_info) THEN "as_completed" ELSE "submit"
    /\ UNCHANGED <<error, exit_code, inputVars, aggVars, descriptions, lookups,
                   yielded, completed, outVars>>

InFlight == { i \in 1..Len(futures) : futures[i].state = "RUNNING" }

\* line 153: ThreadPoolExecutor(max_workers=2)
one_worker_per_task == Len(futures)

max_workers == 2

\* A worker thread takes the oldest work item and calls get_area_description;
\* the pool has max_workers threads.
WorkerStart ==
    /\ queue # <<>>
    /\ Cardinality(InFlight) < max_workers
    /\ futures' = [futures EXCEPT ![Head(queue)].state = "RUNNING"]
    /\ queue' = Tail(queue)
    /\ lookups' = lookups + 1
    /\ UNCHANGED <<pc, error, exit_code, inputVars, aggVars, descriptions, yielded,
                   completed, outVars>>

WorkerFinishRetry ==
    /\ \E i \in InFlight, response \in Responses :
          LET r == get_area_description(futures[i].lat, futures[i].long, response) IN
          IF response \in Failures /\ lookups <= Len(area_info)
          THEN /\ futures' = [futures EXCEPT ![i].state = "PENDING"]
               /\ queue' = Append(queue, i)
          ELSE /\ futures' = [futures EXCEPT ![i].state = "FINISHED",
                                             ![i].response = response,
                                             ![i].raised = r.raised,
                                             ![i].value = r.value]
               /\ queue' = queue
    /\ UNCHANGED <<pc, error, exit_code, inputVars, aggVars, descriptions,
                   lookups, yielded, completed, outVars>>

\* The call of get_area_description returns and the future is completed.
WorkerFinish ==
    /\ \E i \in InFlight, response \in Responses :
          LET r == get_area_description(futures[i].lat, futures[i].long, response) IN
          futures' = [futures EXCEPT ![i].state = "FINISHED",
                                     ![i].response = response,
                                     ![i].raised = r.raised,
                                     ![i].value = r.value]
    /\ UNCHANGED <<pc, error, exit_code, inputVars, aggVars, descriptions, queue,
                   lookups, yielded, completed, outVars>>

StoreAtCompleted(i) ==
    descriptions' = [descriptions EXCEPT ![completed + 1] =
                        IF futures[i].raised THEN <<"Error: ">> \o futures[i].value
                        ELSE futures[i].value]

\* lines 158-164: as_completed yields a finished future not yet yielded; its
\* result, or the text of its exception, is stored at the future's index.
StoreAt(i) ==
    descriptions' = [descriptions EXCEPT ![i] =
                        IF futures[i].raised THEN <<"Error: ">> \o futures[i].value
                        ELSE futures[i].value]

CollectOne ==
    /\ pc = "as_completed"
    /\ \E i \in 1..Len(futures) :
          /\ futures[i].state = "FINISHED"
          /\ i \notin yielded
          /\ StoreAt(i)
          /\ yielded' = yielded \cup {i}
    /\ completed' = completed + 1
    /\ UNCHANGED <<pc, error, exit_code, inputVars, aggVars, futures, queue, lookups,
                   outVars>>

AnyYielded == yielded # {} \/ futures = <<>>

\* as_completed is exhausted once every future was yielded; leaving the with
\* blocks joins the (idle) workers.
AllYielded == yielded = 1..Len(futures)

LeaveExecutor ==
    /\ pc = "as_completed"
    /\ AllYielded
    /\ pc' = "rows"
    /\ UNCHANGED <<error, exit_code, inputVars, aggVars, enrichVars, outVars>>

\* lines 166-171: zip(area_info, descriptions) into table rows.
BuildRows ==
    /\ pc = "rows"
    /\ rows' = [i \in 1..Min(Len(area_info), Len(descriptions)) |->
                   [idx |-> area_info[i].idx,
                    area |-> IF area_info[i].area = None THEN "Unknown" ELSE area_info[i].area,
                    count |-> area_info[i].count,
                    description |-> descriptions[i],
                    gmap_link |-> area_info[i].gmap_link]]
    /\ pc' = "print"
    /\ UNCHANGED <<error, exit_code, inputVars, aggVars, enrichVars, table_printed>>

PrintTable ==
    /\ pc = "print"
    /\ table_printed' = TRUE
    /\ exit_code' = 0
    /\ pc' = "done"
    /\ UNCHANGED <<error, inputVars, aggVars, enrichVars, rows>>

\* --------------------------------------------------------- specifications
EnrichNext ==
    \/ InitDescriptions
    \/ Submit
    \/ WorkerStart
    \/ WorkerFinish
    \/ CollectOne
    \/ LeaveExecutor
    \/ BuildRows
    \/ PrintTable

Next ==
    \/ GetConfig
    \/ GetConfigFail
    \/ FetchPlanningAreas
    \/ FetchPlanningAreasFail
    \/ FetchTaxiAvailability
    \/ FetchTaxiAvailabilityFail
    \/ MapTaxis
    \/ MapTaxisRaise
    \/ CountAreas
    \/ PrepareAreaInfo
    \/ HandleException
    \/ EnrichNext

Spec == Init /\ [][Next]_vars

\* The enrichment stage on its own: main() at line 143, after a run on n
\* one-point areas where area i holds n+1-i taxis (so no two counts are equal)
\* and --top-k n.
CraftCoord(i) == [lat |-> i, long |-> 100 + i]

CraftAreas(n) ==
    [i \in 1..n |-> [pln_area_n |-> Names[i],
                     geojson |-> [is_none |-> FALSE, cells |-> {CraftCoord(i)}]]]

RECURSIVE CraftTaxis(_, _)
CraftTaxis(i, n) ==
    IF i < 1 THEN <<>>
    ELSE [j \in 1..(n + 1 - i) |-> CraftCoord(i)] \o CraftTaxis(i - 1, n)

EnrichInit ==
    \E n \in 0..MaxEntries :
      LET col == [i \in 1..Len(CraftTaxis(n, n)) |->
                     get_planning_area(CraftTaxis(n, n)[i], CraftAreas(n))]
      IN \E counts \in value_counts(col) :
          /\ pc = "descriptions"
          /\ top_k = n
          /\ error = "none"
          /\ exit_code = "running"
          /\ areas = CraftAreas(n)
          /\ df = CraftTaxis(n, n)
          /\ planning_area = col
          /\ vc = counts
          /\ top_ten = head(counts, n)
          /\ area_info = BuildAreaInfo(df, col, top_ten)
          /\ descriptions = <<>>
          /\ futures = <<>>
          /\ queue = <<>>
          /\ lookups = 0
          /\ yielded = {}
          /\ completed = 0
          /\ rows = <<>>
          /\ table_printed = FALSE

\* Threads are scheduled and every request returns (timeout=20), so a step that
\* stays possible is eventually taken.
EnrichSpec == EnrichInit /\ [][EnrichNext]_vars /\ WF_vars(EnrichNext)

\* ================================================================ claims
N == Len(area_info)

AfterCollect == pc \in {"rows", "print", "done"} /\ error = "none"

AfterCount == pc \notin {"get_config", "fetch_areas", "fetch_taxis", "map", "count", "except"}
              /\ error = "none"

AfterMap == pc \notin {"get_config", "fetch_areas", "fetch_taxis", "map", "except"}
            /\ error = "none"

\* C1: the enrichment stage yields exactly N descriptions; at every moment the
\* description at index i is either still empty or the result of the lookup that
\* was submitted for entry i's centroid, whatever the order in which the lookups
\* completed; once collected, all N are filled, and output row i carries rank,
\* name and count of entry i with that description.
C1_OrderPreserved ==
    /\ pc \in {"submit", "as_completed", "rows", "print", "done"} => Len(descriptions) = N
    /\ \A i \in 1..Len(futures) :
          /\ futures[i].lat = area_info[i].lat
          /\ futures[i].long = area_info[i].long
          /\ descriptions[i] = IF i \in yielded THEN futures[i].value ELSE EmptyStr
    /\ AfterCollect => /\ Len(futures) = N
                       /\ yielded = 1..N
    /\ pc \in {"print", "done"} /\ error = "none" =>
          /\ Len(rows) = N
          /\ \A i \in 1..N :
                /\ rows[i].idx = i
                /\ rows[i].idx = area_info[i].idx
                /\ rows[i].area = area_info[i].area
                /\ rows[i].count = area_info[i].count
                /\ rows[i].description = futures[i].value

\* A later entry's lookup completed and was stored while an earlier one was
\* still running, and the run went on to the table.
C1_Witness ==
    /\ N >= 3
    /\ pc = "as_completed"
    /\ 3 \in yielded
    /\ futures[1].state = "RUNNING"
    /\ descriptions[3] = DisplayName(area_info[3].lat, area_info[3].long)

\* C2: at most two lookups are in flight at any moment, for any number of
\* entries; a submitted lookup that has not started waits in the queue.
C2_WorkerBound ==
    /\ Cardinality(InFlight) <= 2
    /\ \A i \in 1..Len(futures) :
          futures[i].state = "PENDING" <=> \E j \in 1..Len(queue) : queue[j] = i

\* Two lookups in flight and a third one waiting.
C2_Witness ==
    /\ Cardinality(InFlight) = 2
    /\ queue # <<>>

\* C3: a failed lookup (bad status, timeout or other exception) leaves the
\* placeholder in its own slot only; every lookup that succeeded has its
\* returned value in its slot, and the run reaches the table with all entries.
C3_FailureIsolated ==
    /\ error = "none"
    /\ \A i \in yielded :
          /\ futures[i].response \in Failures => descriptions[i] = Unknown
          /\ futures[i].response = "ok" =>
                descriptions[i] = DisplayName(area_info[i].lat, area_info[i].long)
          /\ futures[i].response = "no_display_name" => descriptions[i] = Unknown
    /\ pc = "done" => /\ exit_code = 0
                      /\ table_printed
                      /\ Len(rows) = N
                      /\ \A i \in 1..N : rows[i].description = descriptions[i]

\* One lookup timed out, its siblings succeeded, and the table was printed.
C3_Witness ==
    /\ pc = "done"
    /\ N >= 3
    /\ futures[2].response = "exception"
    /\ descriptions[2] = Unknown
    /\ futures[1].response = "ok"
    /\ futures[3].response = "ok"
    /\ table_printed

\* C4: when the first row is built, and from then on, every submitted lookup
\* has completed: nothing is queued or in flight and no slot is still empty.
C4_Barrier ==
    pc \in {"rows", "print", "done"} /\ error = "none" =>
        /\ Len(futures) = N
        /\ queue = <<>>
        /\ InFlight = {}
        /\ \A i \in 1..N : /\ futures[i].state = "FINISHED"
                           /\ descriptions[i] # EmptyStr

\* About to build the first row of a table of three entries.
C4_Witness ==
    /\ pc = "rows"
    /\ N >= 3
    /\ rows = <<>>

\* C5: after assignment and grouping, the counts of all groups plus the number
\* of unassigned points add up to the number of points, and every assigned
\* point belongs to exactly one group.
C5_CountsAddUp ==
    AfterCount =>
        /\ SumSeq([j \in 1..Len(vc) |-> vc[j].count])
             + Cardinality({ i \in 1..Len(df) : planning_area[i] = None }) = Len(df)
        /\ \A i \in 1..Len(df) :
              planning_area[i] # None =>
                  Cardinality({ j \in 1..Len(vc) : vc[j].area = planning_area[i] }) = 1
        /\ \A j \in 1..Len(vc) : vc[j].area # None /\ vc[j].count >= 1

\* Two groups and an unassigned point.
C5_Witness ==
    /\ pc = "prepare"
    /\ Len(vc) >= 1
    /\ \E i \in 1..Len(df) : planning_area[i] = None
    /\ \E i \in 1..Len(df) : planning_area[i] # None

Matches(point) ==
    { i \in 1..Len(areas) : ~areas[i].geojson.is_none /\ point \in areas[i].geojson.cells }

First(S) == CHOOSE i \in S : \A j \in S : i <= j

\* C6: every point is given the name of the first area, in fetched order, whose
\* geometry is present and contains it, and None exactly when there is none.
C6_FirstMatch ==
    AfterMap =>
        /\ Len(planning_area) = Len(df)
        /\ \A p \in 1..Len(df) :
              IF Matches(df[p]) = {} THEN planning_area[p] = None
              ELSE planning_area[p] = areas[First(Matches(df[p]))].pln_area_n

\* A point inside two overlapping areas got the name of the first one, and
\* another point lies in no area.
C6_Witness ==
    /\ pc = "count"
    /\ \E p \in 1..Len(df) : /\ Matches(df[p]) = {1, 2}
                             /\ planning_area[p] = areas[1].pln_area_n
    /\ \E p \in 1..Len(df) : planning_area[p] = None

FirstRow(area) == First({ i \in 1..Len(planning_area) : planning_area[i] = area })

Distinct == { planning_area[i] : i \in 1..Len(planning_area) } \ {None}

\* C8: for top_k >= 0 the ranked list is the first min(top_k, D) rows of the
\* sorted counts, D the number of distinct matched areas; with top_k = 0 it is
\* empty and the run ends with an empty table and no lookup.
C8_TopK ==
    AfterCount /\ top_k >= 0 =>
        /\ Len(vc) = Cardinality(Distinct)
        /\ Len(top_ten) = Min(top_k, Cardinality(Distinct))
        /\ \A i \in 1..Len(top_ten) : top_ten[i] = vc[i]
        /\ pc \notin {"prepare"} => N = Len(top_ten)
        /\ top_k = 0 => /\ top_ten = <<>>
                        /\ lookups = 0
                        /\ futures = <<>>
                        /\ pc = "done" => rows = <<>> /\ exit_code = 0

\* top_k = 0 on a run that matched taxis: finished with nothing looked up.
C8_Witness ==
    /\ pc = "done"
    /\ top_k = 0
    /\ Cardinality(Distinct) >= 1
    /\ table_printed
    /\ lookups = 0

\* C9: a failed fetch, or an exception while mapping, ends the run with exit
\* status 1 and nothing after the failure is done: no mapping (after a failed
\* fetch), no counting, no lookup, no table.
C9_FatalAborts ==
    /\ error \in {"areas", "taxis"} => df = <<>> /\ planning_area = <<>>
    /\ error \in {"areas", "taxis", "mapping"} =>
          /\ pc \in {"except", "done"}
          /\ vc = <<>>
          /\ top_ten = <<>>
          /\ area_info = <<>>
          /\ futures = <<>>
          /\ lookups = 0
          /\ rows = <<>>
          /\ ~table_printed
          /\ pc = "done" => exit_code = 1
    /\ pc = "done" /\ exit_code = 1 => ~table_printed /\ lookups = 0 /\ error # "none"

\* The taxi fetch failed after the areas were fetched; the run ended with 1.
C9_Witness ==
    /\ pc = "done"
    /\ error = "taxis"
    /\ areas # <<>>
    /\ exit_code = 1

\* C10: get_area_description is called once per entry and never again, each
\* slot is written once, and the stage ends with all entries, each holding the
\* placeholder when its lookup failed.
C10_OnceAndDone ==
    /\ [](lookups <= N /\ Len(futures) <= N)
    /\ [](AfterCollect => lookups = N)
    /\ [][\A i \in 1..Len(descriptions) :
            descriptions[i] # EmptyStr => descriptions'[i] = descriptions[i]]_vars
    /\ [](pc = "done" /\ (\A i \in 1..N : futures[i].response \in Failures) =>
            Len(rows) = N /\ \A i \in 1..N : rows[i].description = Unknown)
    /\ <>(pc = "done" /\ Len(rows) = N)

\* Every lookup failed and the table still has all three rows.
C10_Witness ==
    /\ pc = "done"
    /\ N >= 3
    /\ lookups = N
    /\ \A i \in 1..N : futures[i].response \in Failures /\ rows[i].description = Unknown

====
